---- MODULE Spec2Model ----
(***************************************************************************)
(* Model of src/index.ts: the TrieNode automaton (addWord,                 *)
(* buildFailPointers) and the two scanners of SensitiveWordFilter          *)
(* (findSensitiveWords, findSensitiveWordsFuzzy).                          *)
(*                                                                         *)
(* A JavaScript string is a sequence of UTF-16 code units.  `for (const c  *)
(* of s)` walks it by code point, `s.length`, `s[j]` and `s.substring`     *)
(* work on code units.  Both views are modelled: a string is a sequence of *)
(* units, CodePoints(s) is the for...of iteration.                         *)
(*                                                                         *)
(* A TrieNode is identified by the path of Map keys that leads to it from  *)
(* the root (every node is created by exactly one children.set, line 13,   *)
(* so the path is unique).  `nodes` is the heap: node -> its four fields.  *)
(***************************************************************************)
EXTENDS Integers, Sequences, FiniteSets, TLC

\* ------------------------------------------------------------------ bounds
MaxWordLen == 3     \* code points in a dictionary word
MaxWords == 2       \* addWord calls
MaxTextLen == 3     \* code points in a scanned text
MaxSkipArg == 1     \* largest maxSkip passed to the fuzzy scan
MaxLongTextLen == 5 \* code points in a text of the long-text specification

\* ----------------------------------------------------------- strings, UTF-16
HighSurrogate == "D83D"
LowSurrogate == "DE00"

\* One-code-point strings: two BMP characters and one astral character
\* (U+1F600), which UTF-16 stores as a surrogate pair.
Alphabet == { <<"a">>, <<"b">>, <<HighSurrogate, LowSurrogate>> }

\* Well-formed strings of at most n code points (what readFile(...,"utf8")
\* and Blob.text() can deliver).
RECURSIVE StringsUpTo(_)
StringsUpTo(n) ==
  IF n = 0 THEN { <<>> }
  ELSE LET S == StringsUpTo(n - 1)
       IN  S \cup { s \o c : s \in S, c \in Alphabet }

\* String.prototype[Symbol.iterator]: the characters `for...of` yields.
RECURSIVE CodePoints(_)
CodePoints(s) ==
  IF s = <<>> THEN <<>>
  ELSE IF Len(s) >= 2 /\ s[1] = HighSurrogate /\ s[2] = LowSurrogate
       THEN <<SubSeq(s, 1, 2)>> \o CodePoints(SubSeq(s, 3, Len(s)))
       ELSE <<SubSeq(s, 1, 1)>> \o CodePoints(Tail(s))

\* A whitespace character of a dictionary file.
Space == <<" ">>

\* The lines content.split("\n") yields: at most n characters, whitespace
\* included.
RECURSIVE LinesUpTo(_)
LinesUpTo(n) ==
  IF n = 0 THEN { <<>> }
  ELSE LET S == LinesUpTo(n - 1)
       IN  S \cup { s \o c : s \in S, c \in Alphabet \cup {Space} }

\* String.prototype.trim(): leading and trailing whitespace removed.
RECURSIVE TrimStart(_)
TrimStart(s) ==
  IF s # <<>> /\ <<s[1]>> = Space THEN TrimStart(Tail(s)) ELSE s

RECURSIVE TrimEnd(_)
TrimEnd(s) ==
  IF s # <<>> /\ <<s[Len(s)]>> = Space
  THEN TrimEnd(SubSeq(s, 1, Len(s) - 1)) ELSE s

Trim(s) == TrimEnd(TrimStart(s))

Clamp(x, n) == IF x < 0 THEN 0 ELSE IF x > n THEN n ELSE x

\* String.prototype.substring(a, b): code-unit indices, clamped to
\* [0, length], swapped when a > b.
Substring(s, a, b) ==
  LET ca == Clamp(a, Len(s))
      cb == Clamp(b, Len(s))
      lo == IF ca <= cb THEN ca ELSE cb
      hi == IF ca <= cb THEN cb ELSE ca
  IN  SubSeq(s, lo + 1, hi)

\* ------------------------------------------------------------------- heap
Root == <<>>
\* null.  No for...of character is the empty string, so no node has this path.
Null == << <<>> >>

\* Field initialisers of class TrieNode.
NewNode == [children |-> {}, fail |-> Null, end |-> FALSE, length |-> 0]

VARIABLES
  nodes,        \* heap of TrieNode objects reachable from filter.root
  dict,         \* ghost: the words passed to addWord so far
  built,        \* ghost: buildFailPointers ran after the last addWord
  op,           \* the last call: "none", "addWord", "build", "exact", "fuzzy"
  text,         \* argument of the last scan
  maxSkip,      \* argument of the last fuzzy scan
  outcome,      \* "none", "returned" or "TypeError" (thrown)
  foundWords,   \* value returned by the last scan
  trace,        \* ghost: per fuzzy match, [hit: the positions j that took a
                \* transition, active: activeRegions when the match was found]
  activeRegions, \* ghost: the fuzzy scan's activeRegions array when it returned
  peakSkipped,  \* ghost: largest value the counter `skipped` held
  peakExamined  \* ghost: most positions j one run of the inner loop examined

vars == <<nodes, dict, built, op, text, maxSkip, outcome, foundWords, trace,
          activeRegions, peakSkipped, peakExamined>>

\* --------------------------------------------------------------- addWord
\* The loop of addWord from character k of path on; `units` is word.length.
RECURSIVE AddWordFrom(_, _, _, _, _)
AddWordFrom(h, node, path, k, units) ==
  IF k > Len(path)
  THEN [h EXCEPT ![node].end = TRUE, ![node].length = units]
  ELSE LET char == path[k]
           child == Append(node, char)
           h1 == IF char \notin h[node].children
                 THEN (child :> NewNode) @@
                      [h EXCEPT ![node].children = @ \cup {char}]
                 ELSE h
       IN  AddWordFrom(h1, child, path, k + 1, units)

addWord(h, word) == AddWordFrom(h, Root, CodePoints(word), 1, Len(word))

\* ----------------------------------------------------- buildFailPointers
\* Order in which Map.forEach visits the keys (the model keeps the keys as
\* a set; the order only decides the order inside one level of the queue).
RECURSIVE KeyOrder(_)
KeyOrder(S) ==
  IF S = {} THEN <<>>
  ELSE LET k == CHOOSE x \in S : TRUE IN <<k>> \o KeyOrder(S \ {k})

\* let fail = current.fail; while (fail !== null && !fail.children.has(char))
RECURSIVE ClimbFail(_, _, _)
ClimbFail(h, f, char) ==
  IF f # Null /\ char \notin h[f].children
  THEN ClimbFail(h, h[f].fail, char)
  ELSE f

\* Mutant of ChildFail: no walk up the fail chain; only current.fail is tried.
ChildFailNoClimb(h, current, char) ==
  IF current = Root THEN Root
  ELSE LET f == h[current].fail
       IN  IF f # Null /\ char \in h[f].children THEN Append(f, char)
           ELSE Root

\* Mutant of ChildFail: the walk starts at current instead of current.fail.
ChildFailFromCurrent(h, current, char) ==
  IF current = Root THEN Root
  ELSE LET f == ClimbFail(h, current, char)
       IN  IF f # Null THEN Append(f, char) ELSE Root

\* The value assigned to childNode.fail.
ChildFail(h, current, char) ==
  IF current = Root THEN Root
  ELSE LET f == ClimbFail(h, h[current].fail, char)
       IN  IF f # Null THEN Append(f, char) ELSE Root

\* current.children.forEach(...): sets each child's fail, pushes it.
RECURSIVE ForEachChild(_, _, _, _)
ForEachChild(h, queue, current, keys) ==
  IF keys = <<>> THEN [h |-> h, queue |-> queue]
  ELSE LET char == Head(keys)
           child == Append(current, char)
           h1 == [h EXCEPT ![child].fail = ChildFail(h, current, char)]
       IN  ForEachChild(h1, Append(queue, child), current, Tail(keys))

\* while (queue.length > 0)
RECURSIVE BuildLoop(_, _)
BuildLoop(h, queue) ==
  IF queue = <<>> THEN h
  ELSE LET current == Head(queue)
           r == ForEachChild(h, Tail(queue), current,
                             KeyOrder(h[current].children))
       IN  BuildLoop(r.h, r.queue)

buildFailPointers(h) == BuildLoop([h EXCEPT ![Root].fail = Null], <<Root>>)

\* ---------------------------------------------------- findSensitiveWords
\* Mutant of Fallback: the loop does not stop at the root.
RECURSIVE FallbackPastRoot(_, _, _)
FallbackPastRoot(h, node, char) ==
  IF node = Null THEN Null
  ELSE IF char \notin h[node].children
       THEN FallbackPastRoot(h, h[node].fail, char)
       ELSE node

\* while (node !== this.root && !node.children.has(char)) node = node.fail!
\* Null stands for the TypeError of reading a field of null.
RECURSIVE Fallback(_, _, _)
Fallback(h, node, char) ==
  IF node = Null THEN Null
  ELSE IF node # Root /\ char \notin h[node].children
       THEN Fallback(h, h[node].fail, char)
       ELSE node

\* Mutant of Collect: unshift instead of push.
RECURSIVE CollectUnshift(_, _, _, _, _)
CollectUnshift(h, tempNode, currentIndex, t, found) ==
  IF tempNode = Root THEN [thrown |-> FALSE, found |-> found]
  ELSE IF tempNode = Null THEN [thrown |-> TRUE, found |-> found]
  ELSE LET wordLength == h[tempNode].length
           m == [word  |-> Substring(t, currentIndex - wordLength + 1,
                                     currentIndex + 1),
                 start |-> currentIndex - wordLength + 1,
                 end   |-> currentIndex]
       IN  CollectUnshift(h, h[tempNode].fail, currentIndex, t,
                          IF h[tempNode].end THEN <<m>> \o found ELSE found)

\* Ghost: how often the body of the fallback while loop runs for one
\* character.
RECURSIVE FallbackSteps(_, _, _)
FallbackSteps(h, node, char) ==
  IF node # Null /\ node # Root /\ char \notin h[node].children
  THEN 1 + FallbackSteps(h, h[node].fail, char)
  ELSE 0

\* Ghost: the fallback steps of the whole for loop from character k on.
RECURSIVE TotalFallbackSteps(_, _, _, _)
TotalFallbackSteps(h, chars, node, k) ==
  IF k > Len(chars) \/ node = Null THEN 0
  ELSE LET n1 == Fallback(h, node, chars[k])
           n2 == IF n1 = Null THEN Null
                 ELSE IF chars[k] \in h[n1].children
                      THEN Append(n1, chars[k]) ELSE Root
       IN  FallbackSteps(h, node, chars[k])
             + TotalFallbackSteps(h, chars, n2, k + 1)

\* while (tempNode !== this.root) { if (tempNode.end) push; tempNode = fail }
RECURSIVE Collect(_, _, _, _, _)
Collect(h, tempNode, currentIndex, t, found) ==
  IF tempNode = Root THEN [thrown |-> FALSE, found |-> found]
  ELSE IF tempNode = Null THEN [thrown |-> TRUE, found |-> found]
  ELSE LET wordLength == h[tempNode].length
           m == [word  |-> Substring(t, currentIndex - wordLength + 1,
                                     currentIndex + 1),
                 start |-> currentIndex - wordLength + 1,
                 end   |-> currentIndex]
       IN  Collect(h, h[tempNode].fail, currentIndex, t,
                   IF h[tempNode].end THEN Append(found, m) ELSE found)

\* for (const char of text) { ... currentIndex++ }
RECURSIVE ExactLoop(_, _, _, _, _, _)
ExactLoop(h, t, chars, node, currentIndex, found) ==
  IF currentIndex >= Len(chars)
  THEN [outcome |-> "returned", foundWords |-> found]
  ELSE LET char == chars[currentIndex + 1]
           n1 == Fallback(h, node, char)
       IN  IF n1 = Null
           THEN [outcome |-> "TypeError", foundWords |-> <<>>]
           ELSE LET n2 == IF char \in h[n1].children
                          THEN Append(n1, char) ELSE Root
                    c == Collect(h, n2, currentIndex, t, found)
                IN  IF c.thrown
                    THEN [outcome |-> "TypeError", foundWords |-> <<>>]
                    ELSE ExactLoop(h, t, chars, n2, currentIndex + 1, c.found)

findSensitiveWords(h, t) == ExactLoop(h, t, CodePoints(t), Root, 0, <<>>)

\* ----------------------------------------------- findSensitiveWordsFuzzy
\* Mutant of FuzzyInner: `skipped <= maxSkip` instead of `skipped < maxSkip`.
RECURSIVE FuzzyInnerOffByOne(_, _, _, _, _, _, _, _)
FuzzyInnerOffByOne(h, t, skipLimit, j, currentNode, skipped, hit, peak) ==
  IF j >= Len(t)
  THEN [matched |-> FALSE, potentialEnd |-> j, hit |-> hit, peak |-> peak]
  ELSE LET char == <<t[j + 1]>>
       IN  IF char \in h[currentNode].children
           THEN LET child == Append(currentNode, char)
                IN  IF h[child].end
                    THEN [matched |-> TRUE, potentialEnd |-> j,
                          hit |-> Append(hit, j), peak |-> peak]
                    ELSE FuzzyInnerOffByOne(h, t, skipLimit, j + 1, child, 0,
                                            Append(hit, j), peak)
           ELSE IF currentNode # Root /\ skipped <= skipLimit
                THEN FuzzyInnerOffByOne(h, t, skipLimit, j + 1, currentNode,
                                skipped + 1, hit,
                                IF skipped + 1 > peak THEN skipped + 1 ELSE peak)
                ELSE [matched |-> FALSE, potentialEnd |-> j, hit |-> hit,
                      peak |-> peak]

\* Mutant of FuzzyInner: a mismatch is skipped at the root too.
RECURSIVE FuzzyInnerSkipAtRoot(_, _, _, _, _, _, _, _)
FuzzyInnerSkipAtRoot(h, t, skipLimit, j, currentNode, skipped, hit, peak) ==
  IF j >= Len(t)
  THEN [matched |-> FALSE, potentialEnd |-> j, hit |-> hit, peak |-> peak]
  ELSE LET char == <<t[j + 1]>>
       IN  IF char \in h[currentNode].children
           THEN LET child == Append(currentNode, char)
                IN  IF h[child].end
                    THEN [matched |-> TRUE, potentialEnd |-> j,
                          hit |-> Append(hit, j), peak |-> peak]
                    ELSE FuzzyInnerSkipAtRoot(h, t, skipLimit, j + 1, child, 0,
                                              Append(hit, j), peak)
           ELSE IF skipped < skipLimit
                THEN FuzzyInnerSkipAtRoot(h, t, skipLimit, j + 1, currentNode,
                                skipped + 1, hit,
                                IF skipped + 1 > peak THEN skipped + 1 ELSE peak)
                ELSE [matched |-> FALSE, potentialEnd |-> j, hit |-> hit,
                      peak |-> peak]

\* Mutant of FuzzyInner: no break at the first terminal node; the longest
\* match from the start is reported.
RECURSIVE FuzzyInnerLongest(_, _, _, _, _, _, _, _)
FuzzyInnerLongest(h, t, skipLimit, j, currentNode, skipped, hit, peak) ==
  IF j >= Len(t)
  THEN [matched |-> FALSE, potentialEnd |-> j, hit |-> hit, peak |-> peak]
  ELSE LET char == <<t[j + 1]>>
       IN  IF char \in h[currentNode].children
           THEN LET child == Append(currentNode, char)
                    further == FuzzyInnerLongest(h, t, skipLimit, j + 1, child,
                                                 0, Append(hit, j), peak)
                IN  IF h[child].end /\ ~further.matched
                    THEN [matched |-> TRUE, potentialEnd |-> j,
                          hit |-> Append(hit, j), peak |-> peak]
                    ELSE further
           ELSE IF currentNode # Root /\ skipped < skipLimit
                THEN FuzzyInnerLongest(h, t, skipLimit, j + 1, currentNode,
                                skipped + 1, hit,
                                IF skipped + 1 > peak THEN skipped + 1 ELSE peak)
                ELSE [matched |-> FALSE, potentialEnd |-> j, hit |-> hit,
                      peak |-> peak]

\* for (let j = i; j < text.length; j++) { ... }: the inner loop from j on.
\* hit and peak are ghosts (positions that took a transition; largest skipped).
RECURSIVE FuzzyInner(_, _, _, _, _, _, _, _)
FuzzyInner(h, t, skipLimit, j, currentNode, skipped, hit, peak) ==
  IF j >= Len(t)
  THEN [matched |-> FALSE, potentialEnd |-> j, hit |-> hit, peak |-> peak]
  ELSE LET char == <<t[j + 1]>>
       IN  IF char \in h[currentNode].children
           THEN LET child == Append(currentNode, char)
                IN  IF h[child].end
                    THEN [matched |-> TRUE, potentialEnd |-> j,
                          hit |-> Append(hit, j), peak |-> peak]
                    ELSE FuzzyInner(h, t, skipLimit, j + 1, child, 0,
                                    Append(hit, j), peak)
           ELSE IF currentNode # Root /\ skipped < skipLimit
                THEN FuzzyInner(h, t, skipLimit, j + 1, currentNode,
                                skipped + 1, hit,
                                IF skipped + 1 > peak THEN skipped + 1 ELSE peak)
                ELSE [matched |-> FALSE, potentialEnd |-> j, hit |-> hit,
                      peak |-> peak]

\* Mutant of MarkRegion: only the start of the match is marked.
MarkRegionStartOnly(active, matchStart, potentialEnd) ==
  [k \in DOMAIN active |-> IF k = matchStart + 1 THEN 1 ELSE active[k]]

\* for (let k = matchStart; k <= potentialEnd; k++) activeRegions[k] = 1
MarkRegion(active, matchStart, potentialEnd) ==
  [k \in DOMAIN active |->
     IF matchStart + 1 <= k /\ k <= potentialEnd + 1 THEN 1 ELSE active[k]]

\* Ghost: the number of positions j the inner loop started at i examined.
\* r.potentialEnd is j where the loop ended: the position of the match or of
\* the break, or text.length when the loop ran off the text.
Examined(t, i, r) ==
  (IF r.potentialEnd >= Len(t) THEN Len(t) ELSE r.potentialEnd + 1) - i

\* for (let i = 0; i < text.length; i++) { ... }: the outer loop from i on.
\* active[k + 1] is activeRegions[k].  tr, peak and seen are ghosts.
RECURSIVE FuzzyOuter(_, _, _, _, _, _, _, _, _)
FuzzyOuter(h, t, skipLimit, i, active, found, tr, peak, seen) ==
  IF i >= Len(t)
  THEN [outcome |-> "returned", foundWords |-> found, trace |-> tr,
        activeRegions |-> active, peakSkipped |-> peak,
        peakExamined |-> seen]
  ELSE IF active[i + 1] = 1
       THEN FuzzyOuter(h, t, skipLimit, i + 1, active, found, tr, peak, seen)
       ELSE LET r == FuzzyInner(h, t, skipLimit, i, Root, 0, <<>>, peak)
                m == [word  |-> Substring(t, i, r.potentialEnd + 1),
                      start |-> i,
                      end   |-> r.potentialEnd]
                seen1 == IF Examined(t, i, r) > seen
                         THEN Examined(t, i, r) ELSE seen
            IN  IF r.matched
                THEN FuzzyOuter(h, t, skipLimit, i + 1,
                                MarkRegion(active, i, r.potentialEnd),
                                Append(found, m),
                                Append(tr, [hit |-> r.hit, active |-> active]),
                                r.peak, seen1)
                ELSE FuzzyOuter(h, t, skipLimit, i + 1, active, found, tr,
                                r.peak, seen1)

findSensitiveWordsFuzzy(h, t, skipLimit) ==
  FuzzyOuter(h, t, skipLimit, 0, [k \in 1..Len(t) |-> 0], <<>>, <<>>, 0, 0)

\* ------------------------------------------------------------- operations
\* Calls are synchronous: one runs to completion before the next starts.
\* The result of a scan stays in the scan variables until the caller has
\* taken it (TakeResult).
Init ==
  /\ nodes = (Root :> NewNode)
  /\ dict = {}
  /\ built = FALSE
  /\ op = "none"
  /\ text = <<>>
  /\ maxSkip = 0
  /\ outcome = "none"
  /\ foundWords = <<>>
  /\ trace = <<>>
  /\ activeRegions = <<>>
  /\ peakSkipped = 0
  /\ peakExamined = 0

NoScan ==
  /\ text' = <<>>
  /\ maxSkip' = 0
  /\ outcome' = "none"
  /\ foundWords' = <<>>
  /\ trace' = <<>>
  /\ activeRegions' = <<>>
  /\ peakSkipped' = 0
  /\ peakExamined' = 0

Idle == outcome = "none"

\* root.addWord(word)
InsertWord(word) ==
  /\ nodes' = addWord(nodes, word)
  /\ dict' = dict \cup {word}
  /\ built' = FALSE
  /\ op' = "addWord"
  /\ NoScan

AddWord ==
  /\ Idle
  /\ Cardinality(dict) < MaxWords
  /\ \E word \in StringsUpTo(MaxWordLen) :
    /\ word \notin dict
    /\ InsertWord(word)

BuildFailPointers ==
  /\ Idle
  /\ ~built
  /\ nodes' = buildFailPointers(nodes)
  /\ built' = TRUE
  /\ op' = "build"
  /\ UNCHANGED dict
  /\ NoScan

\* Mutant of ExactScan: the scan clears the end flag of the terminal nodes
\* whose length it reported (one-shot reporting).
ExactScanOneShot(t) ==
  \E r \in {findSensitiveWords(nodes, t)} :
    /\ op' = "exact"
    /\ text' = t
    /\ maxSkip' = 0
    /\ outcome' = r.outcome
    /\ foundWords' = r.foundWords
    /\ trace' = <<>>
    /\ activeRegions' = <<>>
    /\ peakSkipped' = 0
    /\ peakExamined' = 0
    /\ nodes' = [n \in DOMAIN nodes |->
                   IF \E k \in DOMAIN r.foundWords :
                        /\ r.foundWords[k].end - r.foundWords[k].start + 1
                             = nodes[n].length
                        /\ nodes[n].end
                   THEN [nodes[n] EXCEPT !.end = FALSE]
                   ELSE nodes[n]]
    /\ UNCHANGED <<dict, built>>

\* filter.findSensitiveWords(t): the call and its result.
ExactScan(t) ==
  \E r \in {findSensitiveWords(nodes, t)} :
    /\ op' = "exact"
    /\ text' = t
    /\ maxSkip' = 0
    /\ outcome' = r.outcome
    /\ foundWords' = r.foundWords
    /\ trace' = <<>>
    /\ activeRegions' = <<>>
    /\ peakSkipped' = 0
    /\ peakExamined' = 0
    /\ UNCHANGED <<nodes, dict, built>>

\* filter.findSensitiveWordsFuzzy(t, skipLimit): the call and its result.
FuzzyScan(t, skipLimit) ==
  \E r \in {findSensitiveWordsFuzzy(nodes, t, skipLimit)} :
    /\ op' = "fuzzy"
    /\ text' = t
    /\ maxSkip' = skipLimit
    /\ outcome' = r.outcome
    /\ foundWords' = r.foundWords
    /\ trace' = r.trace
    /\ activeRegions' = r.activeRegions
    /\ peakSkipped' = r.peakSkipped
    /\ peakExamined' = r.peakExamined
    /\ UNCHANGED <<nodes, dict, built>>

FindSensitiveWords ==
  /\ Idle
  /\ \E t \in StringsUpTo(MaxTextLen) : ExactScan(t)

FindSensitiveWordsFuzzy ==
  /\ Idle
  /\ \E t \in StringsUpTo(MaxTextLen), skipLimit \in -1..MaxSkipArg :
       FuzzyScan(t, skipLimit)

\* The caller has the returned array (or caught the exception).
TakeResult ==
  /\ ~Idle
  /\ op' = "none"
  /\ NoScan
  /\ UNCHANGED <<nodes, dict, built>>

\* ---------------------------------------------------------- the program
\* The module's top level: `await filter.loadSensitiveWords(...)`, then
\* runFilter() and Bun.serve.  Position in the program is read off `built`:
\* loadSensitiveWords ends with buildFailPointers (line 59).
DefaultMaxSkip == 5

\* Mutant of LoadCompleted: loadSensitiveWords is not awaited.
LoadCompletedNoAwait == TRUE

\* Top-level await: the statements after line 138 run once
\* loadSensitiveWords has resolved.
LoadCompleted == built

\* One line of a dictionary file: content.split("\n").forEach(...).
\* A line whose trim() is empty changes nothing.
LoadLine ==
  /\ Idle
  /\ ~built
  /\ Cardinality(dict) < MaxWords
  /\ \E line \in LinesUpTo(MaxWordLen) :
       /\ Trim(line) # <<>>
       /\ Trim(line) \notin dict
       /\ InsertWord(Trim(line))

\* this.root.buildFailPointers() at the end of loadSensitiveWords.
LoadBuild ==
  /\ ~built
  /\ BuildFailPointers

\* runFilter() after its readFile: the exact scan, then the fuzzy scan with
\* the default maxSkip; an exception of the first ends the function.
RunFilter ==
  /\ LoadCompleted
  /\ Idle
  /\ \E content \in StringsUpTo(MaxTextLen) :
       IF findSensitiveWords(nodes, content).outcome = "returned"
       THEN FuzzyScan(content, DefaultMaxSkip)
       ELSE ExactScan(content)

\* The fetch handler of Bun.serve after its awaits: the scan of the body.
Fetch ==
  /\ LoadCompleted
  /\ Idle
  /\ \E content \in StringsUpTo(MaxTextLen) : ExactScan(content)

\* The handler returned the Response / runFilter logged the result.
Respond == TakeResult

ProgNext ==
  \/ LoadLine
  \/ LoadBuild
  \/ RunFilter
  \/ Fetch
  \/ Respond

ProgSpec == Init /\ [][ProgNext]_vars

\* ------------------------------------------------- long fuzzy scans
\* Insertions, one build, then fuzzy scans of texts long enough for a match
\* with several gaps.
LongAddWord ==
  /\ ~built
  /\ AddWord

LongBuild == BuildFailPointers

LongFuzzy ==
  /\ built
  /\ Idle
  /\ \E t \in StringsUpTo(MaxLongTextLen), skipLimit \in 0..MaxSkipArg :
       FuzzyScan(t, skipLimit)

LongTake == TakeResult

LongNext ==
  \/ LongAddWord
  \/ LongBuild
  \/ LongFuzzy
  \/ LongTake

LongSpec == Init /\ [][LongNext]_vars

Next ==
  \/ AddWord
  \/ BuildFailPointers
  \/ FindSensitiveWords
  \/ FindSensitiveWordsFuzzy
  \/ TakeResult

Spec == Init /\ [][Next]_vars

\* ------------------------------------------------------------ properties
ExactReturned == op = "exact" /\ outcome = "returned"
FuzzyReturned == op = "fuzzy" /\ outcome = "returned"

RECURSIVE Concat(_)
Concat(ss) == IF ss = <<>> THEN <<>> ELSE Head(ss) \o Concat(Tail(ss))

\* T[s..e] with s, e logical-character (code point) offsets, both inclusive.
CharSpan(t, s, e) == Concat(SubSeq(CodePoints(t), s + 1, e + 1))
NumChars(t) == Len(CodePoints(t))

\* T[s..e] with s, e code-unit offsets (JavaScript's text[j]), both inclusive.
UnitSpan(t, s, e) == SubSeq(t, s + 1, e + 1)

HasSpan(found, s, e) ==
  \E k \in DOMAIN found : found[k].start = s /\ found[k].end = e

\* w is a subsequence of s that uses the first and the last element of s.
RECURSIVE IsSubseq(_, _)
IsSubseq(w, s) ==
  IF w = <<>> THEN TRUE
  ELSE IF s = <<>> THEN FALSE
  ELSE IF Head(w) = Head(s) THEN IsSubseq(Tail(w), Tail(s))
  ELSE IsSubseq(w, Tail(s))

AnchoredSubseq(w, s) ==
  /\ w # <<>> /\ s # <<>>
  /\ w[1] = s[1]
  /\ w[Len(w)] = s[Len(s)]
  /\ IF Len(w) = 1 THEN Len(s) = 1
     ELSE IsSubseq(SubSeq(w, 2, Len(w) - 1), SubSeq(s, 2, Len(s) - 1))

\* The text units at the positions of hit.
Spelled(t, hit) == [n \in 1..Len(hit) |-> t[hit[n] + 1]]

IsProperPrefix(u, w) == Len(u) < Len(w) /\ SubSeq(w, 1, Len(u)) = u

\* C1: after addWord of every word of D and buildFailPointers, every
\* occurrence T[s..e] of a word of D (s, e logical-character offsets) is
\* returned by findSensitiveWords(T) as a match with start s and end e.
C1_NoFalseNegatives ==
  (op = "exact" /\ built) =>
     /\ outcome = "returned"
     /\ \A s \in 0..(NumChars(text) - 1), e \in 0..(NumChars(text) - 1) :
          (s <= e /\ CharSpan(text, s, e) \in dict) => HasSpan(foundWords, s, e)

\* C2: every match returned by findSensitiveWords has a word that is in D
\* and that equals T[start..end].
C2_ExactSound ==
  ExactReturned =>
    \A k \in DOMAIN foundWords :
      LET m == foundWords[k]
      IN  /\ m.word \in dict
          /\ 0 <= m.start /\ m.start <= m.end /\ m.end < NumChars(text)
          /\ CharSpan(text, m.start, m.end) = m.word

\* C3: the matches of findSensitiveWords are ordered by non-decreasing end
\* and, for one end, by strictly decreasing length of the matched word
\* (end - start + 1, the length recorded in the terminal node).
C3_ExactOrder ==
  ExactReturned =>
    \A i, j \in DOMAIN foundWords :
      i < j =>
        /\ foundWords[i].end <= foundWords[j].end
        /\ foundWords[i].end = foundWords[j].end =>
             (foundWords[i].end - foundWords[i].start)
               > (foundWords[j].end - foundWords[j].start)

C3_Witness ==
  /\ ExactReturned /\ built
  /\ \E i, j \in DOMAIN foundWords :
       i < j /\ foundWords[i].end = foundWords[j].end
  /\ \E i, j \in DOMAIN foundWords :
       i < j /\ foundWords[i].end < foundWords[j].end

\* C4: the spans of one findSensitiveWordsFuzzy call are pairwise disjoint;
\* every position of an emitted span is marked in activeRegions, and no
\* position of a span was marked when its match was found.
C4_FuzzyNonOverlap ==
  FuzzyReturned =>
    /\ Len(trace) = Len(foundWords)
    /\ \A i, j \in DOMAIN foundWords :
         i # j => \/ foundWords[i].end < foundWords[j].start
                  \/ foundWords[j].end < foundWords[i].start
    /\ \A k \in DOMAIN foundWords :
         /\ 0 <= foundWords[k].start
         /\ foundWords[k].start <= foundWords[k].end
         /\ foundWords[k].end < Len(text)
         /\ \A p \in foundWords[k].start..foundWords[k].end :
              /\ activeRegions[p + 1] = 1
              /\ trace[k].active[p + 1] = 0

C4_Witness ==
  /\ FuzzyReturned
  /\ Len(foundWords) >= 2
  /\ \E k \in DOMAIN foundWords : foundWords[k].start < foundWords[k].end

\* C5: with maxSkip >= 0, the counter `skipped` never exceeds maxSkip, and
\* in every fuzzy match at most maxSkip text positions lie between two
\* consecutive positions that took a transition.
C5_FuzzySkipBound ==
  (FuzzyReturned /\ maxSkip >= 0) =>
    /\ peakSkipped <= maxSkip
    /\ \A k \in DOMAIN trace :
         \A n \in 1..(Len(trace[k].hit) - 1) :
           trace[k].hit[n + 1] - trace[k].hit[n] - 1 <= maxSkip

C5_Witness ==
  /\ FuzzyReturned
  /\ maxSkip >= 1
  /\ peakSkipped = maxSkip
  /\ \E k \in DOMAIN trace :
       \E n \in 1..(Len(trace[k].hit) - 1) :
         trace[k].hit[n + 1] - trace[k].hit[n] - 1 = maxSkip

\* C6: every fuzzy match reports word = text[start..end] (code units, as
\* text.substring cuts it), and some dictionary word is a subsequence of
\* that span that starts with text[start] and ends with text[end]; the
\* characters that took a transition spell a dictionary word exactly.
C6_FuzzySound ==
  FuzzyReturned =>
    \A k \in DOMAIN foundWords :
      LET m == foundWords[k]
      IN  /\ 0 <= m.start /\ m.start <= m.end /\ m.end < Len(text)
          /\ m.word = UnitSpan(text, m.start, m.end)
          /\ \E w \in dict : AnchoredSubseq(w, m.word)
          /\ Spelled(text, trace[k].hit) \in dict
          /\ trace[k].hit[1] = m.start
          /\ trace[k].hit[Len(trace[k].hit)] = m.end

C6_Witness ==
  /\ FuzzyReturned
  /\ \E k \in DOMAIN foundWords :
       /\ Len(trace[k].hit) >= 2
       /\ Len(foundWords[k].word) > Len(trace[k].hit)

\* C7: a fuzzy scan emits at most one match per start, and the match ends
\* at the first position where the node followed from that start is
\* terminal: no proper prefix of the characters it matched is a dictionary
\* word.
C7_FuzzyFirstTerminal ==
  FuzzyReturned =>
    /\ \A i, j \in DOMAIN foundWords :
         i # j => foundWords[i].start # foundWords[j].start
    /\ \A k \in DOMAIN trace :
         LET w == Spelled(text, trace[k].hit)
         IN  /\ w \in dict
             /\ \A n \in 1..(Len(w) - 1) : SubSeq(w, 1, n) \notin dict

\* The text holds the longer of two dictionary words at a start, and the
\* match from that start is the shorter one.
C7_Witness ==
  /\ FuzzyReturned
  /\ \E k \in DOMAIN foundWords :
       \E u \in dict, w \in dict :
         /\ u # <<>>
         /\ IsProperPrefix(u, w)
         /\ foundWords[k].word = u
         /\ foundWords[k].start + Len(w) <= Len(text)
         /\ UnitSpan(text, foundWords[k].start,
                     foundWords[k].start + Len(w) - 1) = w

\* C8: every span returned by findSensitiveWordsFuzzy(T, 0) is a span
\* returned by findSensitiveWords(T) on the same built automaton.
C8_FuzzyZeroIsExact ==
  (FuzzyReturned /\ maxSkip = 0 /\ built) =>
    \A k \in DOMAIN foundWords :
      HasSpan(findSensitiveWords(nodes, text).foundWords,
              foundWords[k].start, foundWords[k].end)

\* C9: findSensitiveWordsFuzzy called with maxSkip < 0 is rejected with an
\* InvalidConfiguration error and returns no match list.
C9_NegativeSkipRejected ==
  (op = "fuzzy" /\ maxSkip < 0) => outcome = "InvalidConfiguration"

\* C10: a scan on an automaton that has words but on which buildFailPointers
\* has not run fails with a NotBuilt error.
C10_NotBuiltGuard ==
  (op \in {"exact", "fuzzy"} /\ ~built /\ dict # {}) => outcome = "NotBuilt"

\* C11: in the program all insertions precede buildFailPointers, which runs
\* once; no insertion changes a fail link; every scan runs on the built
\* automaton.
C11_BuildBeforeScan ==
  [][ /\ (op' \in {"exact", "fuzzy"}) => built'
      /\ built => (built' /\ dict' = dict)
      /\ (op' = "build" /\ op # "build") => ~built
      /\ (op' = "addWord") =>
           \A n \in DOMAIN nodes : nodes'[n].fail = nodes[n].fail ]_vars

C11_Witness ==
  /\ built
  /\ Cardinality(dict) = MaxWords
  /\ op = "fuzzy"
  /\ maxSkip = DefaultMaxSkip
  /\ foundWords # <<>>

\* C12: no scan changes a node's children, fail, end or length: across
\* every scan, and across the hand-over of its result, the heap is the same.
C12_ScansReadOnly ==
  [][ (op' \in {"exact", "fuzzy", "none"}) => nodes' = nodes ]_vars

C12_Witness ==
  /\ built
  /\ op \in {"exact", "fuzzy"}
  /\ outcome = "returned"
  /\ Len(foundWords) >= 2
  /\ \E n \in DOMAIN nodes : nodes[n].fail \notin {Root, Null}

\* The automaton of a dictionary: its words inserted into a new root, then
\* buildFailPointers.
RECURSIVE InsertAll(_, _)
InsertAll(h, D) ==
  IF D = {} THEN h
  ELSE LET w == CHOOSE x \in D : TRUE
       IN  InsertAll(addWord(h, w), D \ {w})

FreshAutomaton(D) == buildFailPointers(InsertAll((Root :> NewNode), D))

\* C13: the result of a scan on a built automaton is the result of that
\* scan on a newly built automaton of the same dictionary: it depends on
\* the dictionary and on the call's text (and maxSkip) only, not on the
\* calls made before it.
C13_ScanIndependence ==
  /\ (built /\ op = "exact") =>
       LET r == findSensitiveWords(FreshAutomaton(dict), text)
       IN  outcome = r.outcome /\ foundWords = r.foundWords
  /\ (built /\ op = "fuzzy") =>
       LET r == findSensitiveWordsFuzzy(FreshAutomaton(dict), text, maxSkip)
       IN  outcome = r.outcome /\ foundWords = r.foundWords

C13_Witness ==
  /\ built
  /\ op = "exact"
  /\ outcome = "returned"
  /\ Len(foundWords) >= 3

\* C14: addWord records the number of logical characters (code points) of
\* the word as its length, and every exact match has end = the code-point
\* index of the word's last character, start = end - (code points of the
\* word) + 1 and 0 <= start <= end.
C14_LogicalOffsets ==
  /\ \A n \in DOMAIN nodes : nodes[n].end => nodes[n].length = Len(n)
  /\ (ExactReturned /\ built) =>
       \A k \in DOMAIN foundWords :
         LET m == foundWords[k]
         IN  /\ 0 <= m.start /\ m.start <= m.end /\ m.end < NumChars(text)
             /\ CharSpan(text, m.start, m.end) \in dict

\* C15: both scans return an empty sequence for the empty text, whatever
\* the dictionary, and for every text on the automaton built from the empty
\* dictionary.
C15_EmptyInput ==
  (op \in {"exact", "fuzzy"} /\ (text = <<>> \/ (built /\ dict = {}))) =>
    (outcome = "returned" /\ foundWords = <<>>)

C15_Witness ==
  /\ op = "exact"
  /\ built
  /\ dict = {}
  /\ NumChars(text) = MaxTextLen
  /\ outcome = "returned"
  /\ foundWords = <<>>

\* The proper suffixes of the path n, longest first, as paths.
ProperSuffix(n, k) == SubSeq(n, k + 1, Len(n))

\* The node of the longest proper suffix of n's prefix that is a prefix
\* present in the trie (the root when only the empty suffix is).
LongestSuffixNode(h, n) ==
  LET ks == { k \in 1..Len(n) : ProperSuffix(n, k) \in DOMAIN h }
      k0 == CHOOSE k \in ks : \A k2 \in ks : k <= k2
  IN  ProperSuffix(n, k0)

\* C16: after buildFailPointers, the fail link of every non-root node is
\* the node of the longest proper suffix of its prefix that is in the trie;
\* a child of the root has fail = root, and no non-root fail link is null.
C16_FailLinks ==
  built =>
    \A n \in DOMAIN nodes \ {Root} :
      /\ nodes[n].fail # Null
      /\ nodes[n].fail = LongestSuffixNode(nodes, n)
      /\ Len(n) = 1 => nodes[n].fail = Root

\* A node whose link is found after more than one step up the fail chain.
C16_Witness ==
  /\ built
  /\ op = "build"
  /\ \E n \in DOMAIN nodes :
       /\ Len(n) = 3
       /\ Len(nodes[n].fail) = 1
       /\ Len(nodes[SubSeq(n, 1, 2)].fail) = 1

\* C17: after buildFailPointers the fail target of every non-root node is
\* strictly less deep than the node; the exact scan then returns for every
\* text, and its fallback loop runs at most once per text character in
\* total.
C17_FailDepth ==
  /\ built =>
       \A n \in DOMAIN nodes \ {Root} :
         nodes[n].fail # Null /\ Len(nodes[n].fail) < Len(n)
  /\ (built /\ op = "exact") =>
       /\ outcome = "returned"
       /\ TotalFallbackSteps(nodes, CodePoints(text), Root, 1)
            <= NumChars(text)

C17_Witness ==
  /\ built
  /\ op = "exact"
  /\ outcome = "returned"
  /\ TotalFallbackSteps(nodes, CodePoints(text), Root, 1) >= 2

\* The length in logical characters of the longest dictionary word.
LongestWord(D) ==
  IF D = {} THEN 0
  ELSE LET w == CHOOSE x \in D : \A y \in D : NumChars(y) <= NumChars(x)
       IN  NumChars(w)

SpanBound(D, skipLimit) ==
  IF LongestWord(D) = 0 THEN 1
  ELSE LongestWord(D) + (LongestWord(D) - 1) * skipLimit

\* C18 as stated, for a dictionary with a non-empty word: from one start the
\* inner loop examines at most (longest word + maxSkip) positions, and no
\* returned span is longer than that.
C18_ScanLengthBound ==
  (FuzzyReturned /\ maxSkip >= 0 /\ LongestWord(dict) >= 1) =>
    /\ peakExamined <= LongestWord(dict) + maxSkip
    /\ \A k \in DOMAIN foundWords :
         foundWords[k].end - foundWords[k].start + 1
           <= LongestWord(dict) + maxSkip

\* C18 amended: the skip budget is per gap, so with L the longest word the
\* inner loop examines at most L + (L - 1) * maxSkip positions from one
\* start (one position when the dictionary has no non-empty word), and no
\* returned span is longer than that.
C18_ScanLengthBoundPerGap ==
  (FuzzyReturned /\ maxSkip >= 0) =>
    /\ peakExamined <= SpanBound(dict, maxSkip)
    /\ \A k \in DOMAIN foundWords :
         foundWords[k].end - foundWords[k].start + 1
           <= SpanBound(dict, maxSkip)

\* A match that fills the amended bound and exceeds the stated one.
C18_Witness ==
  /\ FuzzyReturned
  /\ maxSkip >= 1
  /\ \E k \in DOMAIN foundWords :
       /\ foundWords[k].end - foundWords[k].start + 1
            = SpanBound(dict, maxSkip)
       /\ foundWords[k].end - foundWords[k].start + 1
            > LongestWord(dict) + maxSkip

\* C19: inserting the empty word leaves the automaton unchanged: no
\* transition is added and no node, the root included, becomes terminal.
C19_EmptyWordRejected ==
  [][(op' = "addWord" /\ <<>> \notin dict /\ <<>> \in dict')
       => nodes' = nodes]_vars

\* The occurrences of dictionary words that start at unit position i of t.
WordsAt(D, t, i) ==
  {w \in D \ {<<>>} : /\ i + Len(w) <= Len(t)
                      /\ SubSeq(t, i + 1, i + Len(w)) = w}

\* A position is consumed when an earlier returned span covers it.
Consumed(found, i) ==
  \E k \in DOMAIN found : found[k].start < i /\ i <= found[k].end

\* C20: with maxSkip >= 0, a dictionary word that occurs verbatim at a start
\* position not consumed by an earlier match is returned with that start,
\* spanning the shortest dictionary word that is a prefix of the text there;
\* words with two-unit code points included.
C20_FuzzyVerbatim ==
  (FuzzyReturned /\ maxSkip >= 0 /\ built) =>
    \A i \in 0..(Len(text) - 1) :
      (WordsAt(dict, text, i) # {} /\ ~Consumed(foundWords, i)) =>
        LET w == CHOOSE x \in WordsAt(dict, text, i) :
                   \A y \in WordsAt(dict, text, i) : Len(x) <= Len(y)
        IN  HasSpan(foundWords, i, i + Len(w) - 1)

====
